---- MODULE Spec2Model ----
(***************************************************************************)
(* Efes client: the chunked transfer protocol of Client.Write and          *)
(* Client.Read, run against a tracker and a storage device.                *)
(*                                                                         *)
(* One client process runs Write(Key, source) and then Read(Key, dest).    *)
(* Every HTTP exchange is two steps, the request going out and the         *)
(* response coming back, so that what is in flight is part of the state.   *)
(* The tracker and the storage device are the environment: they answer     *)
(* with any status, or not at all (a transport error).                     *)
(***************************************************************************)
EXTENDS Integers, Sequences, FiniteSets, TLC

\* ---------------------------------------------------------------- bounds
\* Longest input source, in bytes.
MaxLen == 3
\* Largest configured ClientConfig.ChunkSize.
MaxChunk == 2
\* Most chunk (PATCH) requests followed in one write session.
MaxReq == 4
\* Devices the tracker may place a file on.
NumDevices == 2
\* File identifiers the tracker may hand out.
MaxFid == 2

\* Lowest and highest HTTP status code checked.
MinStatus == 100
\* Longest source of a concurrent writer.
ConcLen == 2
\* Most rows of a status table.
MaxRows == 2
\* Width of the machine integers of the status arithmetic, in bits; the
\* program's int64 scaled down.
WordBits == 24
MaxStatus == 599

\* ------------------------------------------------------ program constants
\* http.StatusOK, the status every call of the client expects.
StatusOK == 200
\* size of a source whose length is not known up front (stdin).
UnknownSize == -1

\* The two byte values of the inputs; the client never inspects a byte.
Bytes == {1, 2}
\* Status codes the tracker and the devices answer with.
Statuses == {200, 201, 404, 500}
\* The one key written and read.
Key == "K"

Devices == 1..NumDevices
Fids == 1..MaxFid
\* A location on a storage device (the URL of a file).
Paths == [dev : Devices, fid : Fids]
NoPath == [dev |-> 0, fid |-> 0]

Min(a, b) == IF a < b THEN a ELSE b

\* All byte sequences of length at most n.
SeqsUpTo(n) == UNION {[1..k -> Bytes] : k \in 0..n}

\* An HTTP exchange's outcome: no response at all (transport error), or a
\* response with a status code whose JSON body decodes or does not.
Responses ==
    {[transport |-> TRUE, code |-> 0, decodable |-> FALSE]}
    \cup {[transport |-> FALSE, code |-> s, decodable |-> TRUE] : s \in Statuses}
    \cup {[transport |-> FALSE, code |-> StatusOK, decodable |-> FALSE]}

\* ------------------------------------------------------- pure functions
\* checkResponseError without its last test: any status below 400 passes.
checkResponseErrorNoMismatch(status, statusCode) ==
    IF status >= 500 THEN "server"
    ELSE IF status >= 400 THEN "client"
    ELSE "nil"

\* checkResponseError testing for the expected status first.
checkResponseErrorExpectedFirst(status, statusCode) ==
    IF status = statusCode THEN "nil"
    ELSE IF status >= 500 THEN "server"
    ELSE IF status >= 400 THEN "client"
    ELSE "unexpected"

\* checkResponseError(resp, statusCode): the error kind, "nil" for none.
checkResponseError(status, statusCode) ==
    IF status >= 500 THEN "server"
    ELSE IF status >= 400 THEN "client"
    ELSE IF status # statusCode THEN "unexpected"
    ELSE "nil"

\* Client.request: the error of one tracker call; wantsBody is response # nil.
request(resp, statusCode, wantsBody) ==
    IF resp.transport THEN "transport"
    ELSE IF checkResponseError(resp.code, statusCode) # "nil"
         THEN checkResponseError(resp.code, statusCode)
    ELSE IF ~wantsBody THEN "nil"
    ELSE IF ~resp.decodable THEN "decode"
    ELSE "nil"

\* httpClient.Do (or http.Get) followed by checkResponseError: the error of
\* one exchange with a storage device.
DoChecked(resp, statusCode) ==
    IF resp.transport THEN "transport"
    ELSE checkResponseError(resp.code, statusCode)

\* createOpen: the size form parameter, present only for a known size.
OpenSizeParam(sz) == IF sz > -1 THEN {sz} ELSE {}

\* io.LimitReader(rc, ChunkSize): the body of the next chunk request, the
\* next bytes of the source, at most ChunkSize of them.
ChunkBody(src, cnt, chunk) ==
    SubSeq(src, cnt + 1, Min(Len(src), cnt + chunk))

\* The offset header taken after the body was counted: one chunk ahead.
OffsetHeaderAhead(cnt) == cnt + 1

\* Every chunk sent with offset 0.
OffsetHeaderZero(cnt) == 0

\* offset := rc.Count(), sent as efes-file-offset.
OffsetHeader(cnt) == cnt

\* efes-file-length, added only when the size is known.
LengthHeader(sz) == IF sz > -1 THEN {sz} ELSE {}

\* The return test at the end of the loop body of Client.write.
EOFReached(sz, cnt) == sz > -1 /\ cnt >= sz

\* Client.Write going on to the chunks whatever createOpen returned.
AfterOpenIgnoringErr(err) == "chunk"

\* Client.Write after createOpen returned err: where it goes on.
AfterOpen(err) == IF err # "nil" THEN "done" ELSE "chunk"

\* Client.write sending the next chunk after a failed one.
AfterChunkRetrying(err, sz, cnt) ==
    IF err = "nil" /\ EOFReached(sz, cnt) THEN "close" ELSE "chunk"

\* Client.write after httpClient.Do and checkResponseError gave err for a
\* chunk: return the error, return the count, or loop.
AfterChunk(err, sz, cnt) ==
    IF err # "nil" THEN "done"
    ELSE IF EOFReached(sz, cnt) THEN "close"
    ELSE "chunk"

\* createClose sent the size declared up front instead of the count.
CloseSizeDeclared(sz, cnt) == sz

\* The size createClose sends: n, the count Client.write returned.
CloseSize(sz, cnt) == cnt

\* Read fetching from the last path of the list.
FetchTargetLast(paths) == paths[Len(paths)]

\* http.Get(paths[0]): the location Read fetches from.
FetchTarget(paths) == paths[1]

\* Read dropping the error of f.Close().
CopyResultNoClose(copyOK, closeOK) == IF ~copyOK THEN "copy" ELSE "nil"

\* The end of Client.Read: the error of io.Copy, else that of f.Close().
CopyResult(copyOK, closeOK) ==
    IF ~copyOK THEN "copy"
    ELSE IF ~closeOK THEN "close"
    ELSE "nil"

\* readCounter: Count() is the number of bytes read through it so far.
CountAfter(cnt, body) == cnt + Len(body)

\* ---------------------------------------------- Client.Exists (client.go)
\* http.StatusNotFound, the code Exists reads as an absent key.
StatusNotFound == 404

\* checkResponseError(resp) of client.go: an error with its kind and, for a
\* *ClientError, the status code; kind "nil" for none.
responseError(status) ==
    IF status >= 500 THEN [kind |-> "server", code |-> status]
    ELSE IF status >= 400 THEN [kind |-> "client", code |-> status]
    ELSE IF status # StatusOK THEN [kind |-> "unexpected", code |-> status]
    ELSE [kind |-> "nil", code |-> 0]

\* Client.request of client.go: the error of one tracker call.
trackerRequest(resp, wantsBody) ==
    IF resp.transport THEN [kind |-> "transport", code |-> 0]
    ELSE IF responseError(resp.code).kind # "nil" THEN responseError(resp.code)
    ELSE IF ~wantsBody THEN [kind |-> "nil", code |-> 0]
    ELSE IF ~resp.decodable THEN [kind |-> "decode", code |-> 0]
    ELSE [kind |-> "nil", code |-> 0]

\* Client.getPath: the error of the get-paths call for the key.
getPath(resp) == trackerRequest(resp, TRUE)

\* Exists reading every *ClientError as an absent key.
ExistsAnyClientError(err) ==
    IF err.kind = "nil" THEN [called |-> TRUE, exists |-> TRUE, err |-> "nil"]
    ELSE IF err.kind = "client"
    THEN [called |-> TRUE, exists |-> FALSE, err |-> "nil"]
    ELSE [called |-> TRUE, exists |-> FALSE, err |-> err.kind]

\* Client.Exists, given the error getPath returned.
Exists(err) ==
    IF err.kind = "nil" THEN [called |-> TRUE, exists |-> TRUE, err |-> "nil"]
    ELSE IF err.kind = "client" /\ err.code = StatusNotFound
    THEN [called |-> TRUE, exists |-> FALSE, err |-> "nil"]
    ELSE [called |-> TRUE, exists |-> FALSE, err |-> err.kind]

\* ------------------------------------------------- status arithmetic
\* The largest int64.
MaxInt64 == 2 ^ (WordBits - 1) - 1

\* An int64 result: the low bits of x, read as a signed number.
Wrap64(x) == ((x + 2 ^ (WordBits - 1)) % (2 ^ WordBits)) - 2 ^ (WordBits - 1)

Abs(x) == IF x < 0 THEN -x ELSE x

\* Go's integer division, which truncates toward zero; b is not 0.
Quot(a, b) ==
    IF (a < 0) = (b < 0) THEN Abs(a) \div Abs(b) ELSE -(Abs(a) \div Abs(b))

\* The bytes of one unit of the table, G, scaled with the word.
G == 1000

\* strconv.FormatInt(n, 10): the decimal digits of n, a sign before them.
RECURSIVE Dec(_)
Dec(n) ==
    LET digit == <<"0", "1", "2", "3", "4", "5", "6", "7", "8", "9">> IN
    IF n < 10 THEN <<digit[n + 1]>>
    ELSE Dec(n \div 10) \o <<digit[(n % 10) + 1]>>

FormatInt(n) == IF n < 0 THEN <<"-">> \o Dec(-n) ELSE Dec(n)

\* The value a non-nil *int64 points to; nil is the empty set.
Val(ptr) == CHOOSE v \in ptr : TRUE

\* deviceStatus.Use: the text of the cell, or the run-time panic of an
\* integer division by zero.
Use(d) ==
    IF d.used = {} \/ d.total = {} THEN [panic |-> FALSE, text |-> <<>>]
    ELSE IF Val(d.total) = 0 THEN [panic |-> TRUE, text |-> <<>>]
    ELSE [panic |-> FALSE,
          text |-> FormatInt(Quot(Wrap64(Val(d.used) * 100), Val(d.total)))]

\* totalUsed counting only the devices that also report a total.
RECURSIVE SumUsedOfSized(_)
SumUsedOfSized(devs) ==
    IF devs = <<>> THEN 0
    ELSE LET d == devs[Len(devs)] IN
         Wrap64(SumUsedOfSized(SubSeq(devs, 1, Len(devs) - 1))
                + (IF d.used # {} /\ d.total # {} THEN Val(d.used) ELSE 0))

\* efesStatus.Print: totalUsed after its loop.
RECURSIVE SumUsed(_)
SumUsed(devs) ==
    IF devs = <<>> THEN 0
    ELSE LET d == devs[Len(devs)] IN
         Wrap64(SumUsed(SubSeq(devs, 1, Len(devs) - 1))
                + (IF d.used # {} THEN Val(d.used) ELSE 0))

\* efesStatus.Print: totalSize after its loop.
RECURSIVE SumSize(_)
SumSize(devs) ==
    IF devs = <<>> THEN 0
    ELSE LET d == devs[Len(devs)] IN
         Wrap64(SumSize(SubSeq(devs, 1, Len(devs) - 1))
                + (IF d.total # {} THEN Val(d.total) ELSE 0))

\* efesStatus.Print: totalUse.
TotalUse(totalUsed, totalSize) ==
    IF totalSize = 0 THEN 0 ELSE Quot(Wrap64(100 * totalUsed), totalSize)

\* efesStatus.Print: the footer handed to the table, then the rows; the
\* table is rendered unless the Use of a row panics.
PrintOut(devs) ==
    LET totalUsed == SumUsed(devs)
        totalSize == SumSize(devs)
        totalFree == Wrap64(totalSize - totalUsed)
        cells == [i \in 1..Len(devs) |-> Use(devs[i])]
    IN  [state |-> IF \E i \in 1..Len(devs) : cells[i].panic
                   THEN "panic" ELSE "rendered",
         size |-> Quot(totalSize, G),
         used |-> Quot(totalUsed, G),
         free |-> Quot(totalFree, G),
         use |-> FormatInt(TotalUse(totalUsed, totalSize)),
         cells |-> cells]

\* ---------------------------------------------------------- Client.Status
\* The host record with the id, as hostsByID holds it: none, or the last
\* one of the list with that id.
HostOfAny(hosts, id) ==
    IF hosts = <<>> THEN {} ELSE {hosts[Len(hosts)]}

HostOf(hosts, id) ==
    LET at == {i \in 1..Len(hosts) : hosts[i].hostid = id} IN
    IF at = {} THEN {}
    ELSE {hosts[CHOOSE i \in at : \A j \in at : j <= i]}

\* The deviceStatus built for device d.
Row(d, hosts) ==
    LET h == HostOf(hosts, d.hostid) IN
    [device |-> d,
     hostname |-> IF h = {} THEN "" ELSE (CHOOSE x \in h : TRUE).hostname,
     hostStatus |-> IF h = {} THEN "" ELSE (CHOOSE x \in h : TRUE).status]

\* The devices the loop of Status does not skip.
Listed(devices) == SelectSeq(devices, LAMBDA d : d.status # "dead")

\* ret.devices after the loop, before the sort.
Rows(devices, hosts) ==
    [i \in 1..Len(Listed(devices)) |-> Row(Listed(devices)[i], hosts)]

\* The sort keys Status knows.
KnownSortKeys == {"host", "device", "size", "used", "free"}

\* The value a sorter compares rows by; an absent one sorts first.
SortKey(row, sortBy) ==
    LET opt(ptr) == IF ptr = {} THEN -1 ELSE CHOOSE v \in ptr : TRUE IN
    CASE sortBy = "host" ->
            (CASE row.hostname = "" -> 0
               [] row.hostname = "h1" -> 1
               [] OTHER -> 2)
      [] sortBy = "device" -> row.device.devid
      [] sortBy = "size" -> opt(row.device.total)
      [] sortBy = "used" -> opt(row.device.used)
      [] OTHER -> opt(row.device.free)

\* The orders sort.Sort may leave the rows in: sort.Sort is not stable, so
\* any arrangement of the rows in which the keys do not decrease.
Sorted(rows, sortBy) ==
    LET n == Len(rows)
        perms == {p \in [1..n -> 1..n] : \A i, j \in 1..n : i # j => p[i] # p[j]}
    IN  {s \in {[i \in 1..n |-> rows[p[i]]] : p \in perms} :
            \A i, j \in 1..n :
                i < j => SortKey(s[i], sortBy) <= SortKey(s[j], sortBy)}

\* The switch of Status sorting by host where no key matches.
SortRowsDefaultByHost(rows, sortBy) ==
    Sorted(rows, IF sortBy \in KnownSortKeys THEN sortBy ELSE "host")

\* The switch on sortBy at the end of Status: the orders it may return.
SortRows(rows, sortBy) ==
    IF sortBy \in KnownSortKeys THEN Sorted(rows, sortBy) ELSE {rows}

\* ------------------------------------------------------------ environment
\* The storage device stores a chunk body at the offset of its header.
RECURSIVE WriteAt(_, _, _)
WriteAt(old, off, body) ==
    IF body = <<>> THEN old
    ELSE LET grown == IF Len(old) >= off + 1 THEN old
                      ELSE old \o [i \in 1..(off + 1 - Len(old)) |-> 0]
             put == [grown EXCEPT ![off + 1] = Head(body)]
         IN  WriteAt(put, off + 1, Tail(body))

\* A tracker answer that grants the call: the expected status with a body
\* that decodes (create-open, get-paths).
Granted(resp) == ~resp.transport /\ resp.code = StatusOK /\ resp.decodable

\* An answer with the expected status (PATCH, fetch, create-close).
Accepted(resp) == ~resp.transport /\ resp.code = StatusOK

\* The device's files after a PATCH of body at off to path p.
DeviceStore(st, p, off, body) ==
    LET old == IF p \in DOMAIN st THEN st[p] ELSE <<>>
    IN  (p :> WriteAt(old, off, body)) @@ st

\* ------------------------------------------------------------------ state
VARIABLES
    content,     \* the bytes the input source delivers
    size,        \* Write's size: fi.Size() of the file, or -1 for stdin
    chunkSize,   \* config.ChunkSize
    wpc,         \* where Client.Write is
    wres,        \* what Client.Write returned ("none" while it runs)
    wpath,       \* path returned by createOpen
    wfid,        \* fid returned by createOpen
    wdevid,      \* devid returned by createOpen
    count,       \* rc.Count(), the bytes read from the source so far
    log,         \* every request sent so far, in order, with its outcome
    pending,     \* tracker: the pending files (reserved, not committed)
    mapping,     \* tracker: the committed file of Key (a set of at most one)
    store,       \* storage devices: path -> stored bytes
    rpc,         \* where Client.Read is
    rres,        \* what Client.Read returned ("none" while it runs)
    rpaths,      \* paths returned by getPaths
    destCreated, \* os.Create made the destination file
    dest,        \* bytes written to the destination
    destClosed,  \* the destination was closed
    destErr,     \* the fault of the destination, "none" without one
    ckResp,      \* checkResponseError: the response checked
    ckExpected,  \* checkResponseError: the statusCode expected
    ckWants,     \* Client.request: whether a response body is asked for
    ckErr,       \* what checkResponseError returned ("pending" before)
    ckReq,       \* what Client.request returned for the response
    ckDo,        \* what Do and checkResponseError returned for it
    exResult,    \* what Client.Exists returned for the response
    sess,        \* concurrent writers: each Client.Write session's state
    closed,      \* concurrent writers: whose create-close took effect, in order
    prDevices,   \* efesStatus.devices, the rows efesStatus.Print is given
    prOut,       \* what efesStatus.Print computed
    stDevices,   \* the tracker's answer to get-devices
    stHosts,     \* the tracker's answer to get-hosts
    stRet        \* what Client.Status returned

wvars == <<wpc, wres, wpath, wfid, wdevid, count>>
rvars == <<rpc, rres, rpaths, destCreated, dest, destClosed, destErr>>
envvars == <<pending, mapping, store>>
inputs == <<content, size, chunkSize>>
ckvars == <<ckResp, ckExpected, ckWants, ckErr, ckReq, ckDo, exResult>>
\* The transfer protocol's own variables.
xfervars == <<content, size, chunkSize, wpc, wres, wpath, wfid, wdevid, count,
              log, pending, mapping, store, rpc, rres, rpaths, destCreated,
              dest, destClosed, destErr>>
\* The variables of the other specifications, which Spec leaves alone.
concvars == <<sess, closed>>
prvars == <<prDevices, prOut>>
stvars == <<stDevices, stHosts, stRet>>
aside == <<ckvars, concvars, prvars, stvars>>
vars == <<xfervars, aside>>

\* The answer a request in flight has so far: none.
NoResp == [transport |-> FALSE, code |-> 0, decodable |-> FALSE]

\* Client.Exists before it is called.
NotCalled == [called |-> FALSE, exists |-> FALSE, err |-> "nil"]

\* The response check at rest: nothing checked.
CkIdle ==
    /\ ckResp = [transport |-> TRUE, code |-> 0, decodable |-> FALSE]
    /\ ckExpected = 0
    /\ ckWants = FALSE
    /\ ckErr = "pending"
    /\ ckReq = "pending"
    /\ ckDo = "pending"
    /\ exResult = NotCalled

\* The two writers of the same key.
Writers == {1, 2}

\* A Client.Write session that has not begun, for a source c of size sz.
Session(c, sz) ==
    [content |-> c, size |-> sz, pc |-> "start", res |-> "none",
     path |-> NoPath, fid |-> 0, devid |-> 0, count |-> 0, sent |-> 0]

\* No concurrent writers.
ConcIdle ==
    /\ sess = [w \in Writers |-> Session(<<>>, 0)]
    /\ closed = <<>>

\* efesStatus.Print before it is called.
NotPrinted ==
    [state |-> "none", size |-> 0, used |-> 0, free |-> 0, use |-> <<>>,
     cells |-> <<>>]

\* No status table.
PrIdle ==
    /\ prDevices = <<>>
    /\ prOut = NotPrinted

\* Client.Status before it is called. sortBy is the key the switch at the
\* end of Status read, empty while it has read none.
NoStatus ==
    [called |-> FALSE, sortBy |-> "", err |-> "nil", snapshot |-> FALSE,
     rows |-> <<>>, devAnswer |-> NoResp, hostAnswer |-> NoResp]

\* No status request.
StIdle ==
    /\ stDevices = <<>>
    /\ stHosts = <<>>
    /\ stRet = NoStatus

\* The other specifications at rest.
AsideIdle == CkIdle /\ ConcIdle /\ PrIdle /\ StIdle

\* One request as the log keeps it. ack is the answer it got (NoResp while
\* it is in flight) and ret the paths a successful answer carried.
Req(kind, path, offset, length, body, sz, fid, devid) ==
    [kind |-> kind, path |-> path, offset |-> offset, length |-> length,
     body |-> body, size |-> sz, fid |-> fid, devid |-> devid,
     ack |-> NoResp, ret |-> <<>>]

\* The log with the answer to its last request filled in.
Acked(l, resp, ret) ==
    [l EXCEPT ![Len(l)].ack = resp, ![Len(l)].ret = ret]

\* The requests of one kind, in order.
OfKind(l, kind) == SelectSeq(l, LAMBDA r : r.kind = kind)

\* A source of known size may hold fewer or more bytes than fi.Size()
\* reported: the file can change between Stat and the reads.
Init ==
    /\ content \in SeqsUpTo(MaxLen)
    /\ size \in {UnknownSize} \cup 0..MaxLen
    /\ chunkSize \in 1..MaxChunk
    /\ wpc = "start"
    /\ wres = "none"
    /\ wpath = NoPath
    /\ wfid = 0
    /\ wdevid = 0
    /\ count = 0
    /\ log = <<>>
    /\ pending = {}
    /\ mapping = {}
    /\ store = <<>>
    /\ rpc = "start"
    /\ rres = "none"
    /\ rpaths = <<>>
    /\ destCreated = FALSE
    /\ dest = <<>>
    /\ destClosed = FALSE
    /\ destErr = "none"
    /\ AsideIdle

\* The transfer protocol at rest: no Write and no Read under way.
XferIdle ==
    /\ content = <<>>
    /\ size = 0
    /\ chunkSize = 1
    /\ wpc = "start"
    /\ wres = "none"
    /\ wpath = NoPath
    /\ wfid = 0
    /\ wdevid = 0
    /\ count = 0
    /\ log = <<>>
    /\ pending = {}
    /\ mapping = {}
    /\ store = <<>>
    /\ rpc = "start"
    /\ rres = "none"
    /\ rpaths = <<>>
    /\ destCreated = FALSE
    /\ dest = <<>>
    /\ destClosed = FALSE
    /\ destErr = "none"

\* ----------------------------------------------------------- Client.Write
\* os.Open or f.Stat fails: Write returns before any request.
WriteOpenFail ==
    /\ wpc = "start"
    /\ size # UnknownSize
    /\ wpc' = "done"
    /\ wres' = "source"
    /\ UNCHANGED <<wpath, wfid, wdevid, count, log>>
    /\ UNCHANGED <<aside, inputs, envvars, rvars>>

\* createOpen sends POST create-open.
CreateOpenSend ==
    /\ wpc = "start"
    /\ log' = Append(log, Req("create-open", NoPath, 0, {}, <<>>,
                              OpenSizeParam(size), 0, 0))
    /\ wpc' = "openWait"
    /\ UNCHANGED <<wres, wpath, wfid, wdevid, count>>
    /\ UNCHANGED <<aside, inputs, envvars, rvars>>

\* The tracker's answer to create-open: on success a fresh pending file.
CreateOpenResp ==
    /\ wpc = "openWait"
    /\ \E resp \in Responses, p \in Paths :
        LET err == request(resp, StatusOK, TRUE) IN
        /\ wpc' = AfterOpen(err)
        /\ wres' = IF AfterOpen(err) = "done" THEN err ELSE wres
        /\ IF Granted(resp)
           THEN /\ p \notin pending
                /\ pending' = pending \cup {p}
                /\ log' = Acked(log, resp, <<p>>)
                /\ wpath' = p
                /\ wfid' = p.fid
                /\ wdevid' = p.dev
           ELSE /\ p = CHOOSE q \in Paths : TRUE
                /\ log' = Acked(log, resp, <<>>)
                /\ UNCHANGED <<wpath, wfid, wdevid, pending>>
    /\ UNCHANGED <<count, mapping, store>>
    /\ UNCHANGED <<aside, inputs, rvars>>

\* http.NewRequest rejects the path create-open returned: write returns
\* the error before the first chunk goes out.
ChunkNewRequestFail ==
    /\ wpc = "chunk"
    /\ OfKind(log, "chunk") = <<>>
    /\ wpc' = "done"
    /\ wres' = "newrequest"
    /\ UNCHANGED <<wpath, wfid, wdevid, count, log>>
    /\ UNCHANGED <<aside, inputs, envvars, rvars>>

\* One turn of the loop of Client.write up to httpClient.Do: the PATCH
\* request goes out, its body read from the source through the counter.
ChunkSend ==
    /\ wpc = "chunk"
    /\ Len(OfKind(log, "chunk")) < MaxReq
    /\ LET body == ChunkBody(content, count, chunkSize) IN
        /\ log' = Append(log, Req("chunk", wpath, OffsetHeader(count),
                                  LengthHeader(size), body, {}, 0, 0))
        /\ count' = CountAfter(count, body)
    /\ wpc' = "chunkWait"
    /\ UNCHANGED <<wres, wpath, wfid, wdevid>>
    /\ UNCHANGED <<aside, inputs, envvars, rvars>>

\* The device's answer to the PATCH, and the rest of the loop body.
ChunkResp ==
    /\ wpc = "chunkWait"
    /\ \E resp \in Responses :
        LET err == DoChecked(resp, StatusOK)
            r == log[Len(log)]
        IN
        /\ resp.transport \/ resp.decodable
        /\ log' = Acked(log, resp, <<>>)
        /\ wpc' = AfterChunk(err, size, count)
        /\ wres' = IF AfterChunk(err, size, count) = "done" THEN err ELSE wres
        /\ store' = IF Accepted(resp)
                    THEN DeviceStore(store, r.path, r.offset, r.body)
                    ELSE store
    /\ UNCHANGED <<wpath, wfid, wdevid, count, pending, mapping>>
    /\ UNCHANGED <<aside, inputs, rvars>>

\* createClose sends POST create-close with n = rc.Count().
CreateCloseSend ==
    /\ wpc = "close"
    /\ log' = Append(log, Req("create-close", NoPath, 0, {}, <<>>,
                              {CloseSize(size, count)}, wfid, wdevid))
    /\ wpc' = "closeWait"
    /\ UNCHANGED <<wres, wpath, wfid, wdevid, count>>
    /\ UNCHANGED <<aside, inputs, envvars, rvars>>

\* The tracker's answer to create-close: on success the key is mapped to
\* the pending file, which must exist on the device named.
CreateCloseResp ==
    /\ wpc = "closeWait"
    /\ \E resp \in Responses :
        LET err == request(resp, StatusOK, FALSE)
            r == log[Len(log)]
            p == [dev |-> r.devid, fid |-> r.fid]
        IN
        /\ resp.transport \/ resp.decodable
        /\ log' = Acked(log, resp, <<>>)
        /\ wres' = err
        /\ wpc' = "done"
        /\ IF Accepted(resp)
           THEN /\ p \in pending
                /\ pending' = pending \ {p}
                /\ mapping' = {[fid |-> r.fid, devid |-> r.devid,
                                size |-> r.size]}
           ELSE UNCHANGED <<pending, mapping>>
    /\ UNCHANGED <<wpath, wfid, wdevid, count, store>>
    /\ UNCHANGED <<aside, inputs, rvars>>

WriteNext ==
    \/ WriteOpenFail
    \/ CreateOpenSend
    \/ CreateOpenResp
    \/ ChunkNewRequestFail
    \/ ChunkSend
    \/ ChunkResp
    \/ CreateCloseSend
    \/ CreateCloseResp

\* ------------------------------------------------------------ Client.Read
\* The tracker's list for get-paths: the committed file's location first,
\* possibly followed by a second location; empty when the key is unmapped.
Resolved ==
    IF mapping = {} THEN {<<>>}
    ELSE LET m == CHOOSE x \in mapping : TRUE
             p == [dev |-> m.devid, fid |-> m.fid]
         IN  {<<p>>} \cup {<<p, q>> : q \in {x \in Paths : x.fid = p.fid /\ x # p}}

\* The body a device serves for a fetch of p: the bytes it stores there.
Served(p) == IF p \in DOMAIN store THEN store[p] ELSE <<>>

\* The byte counts io.Copy may have written when it returns: all of the
\* body without an error, any prefix of it with one.
Copied(body, copyOK) == IF copyOK THEN {Len(body)} ELSE 0..Len(body)

\* getPaths sends GET get-paths; Read runs after Write has returned.
GetPathsSend ==
    /\ wpc = "done"
    /\ rpc = "start"
    /\ log' = Append(log, Req("get-paths", NoPath, 0, {}, <<>>, {}, 0, 0))
    /\ rpc' = "pathsWait"
    /\ UNCHANGED <<rres, rpaths, destCreated, dest, destClosed, destErr>>
    /\ UNCHANGED <<aside, inputs, envvars, wvars>>

\* The tracker's answer to get-paths and the tests of Read that follow.
GetPathsResp ==
    /\ rpc = "pathsWait"
    /\ \E resp \in Responses :
       \E paths \in (IF Granted(resp) THEN Resolved ELSE {<<>>}) :
        LET err == request(resp, StatusOK, TRUE) IN
        /\ log' = Acked(log, resp, paths)
        /\ IF err # "nil"
           THEN /\ rres' = err
                /\ rpc' = "done"
                /\ UNCHANGED rpaths
           ELSE IF Len(paths) = 0
           THEN /\ rres' = "nopath"
                /\ rpc' = "done"
                /\ UNCHANGED rpaths
           ELSE /\ rpaths' = paths
                /\ rpc' = "fetch"
                /\ UNCHANGED rres
    /\ UNCHANGED <<destCreated, dest, destClosed, destErr>>
    /\ UNCHANGED <<aside, inputs, envvars, wvars>>

\* http.Get(paths[0]) goes out.
FetchSend ==
    /\ rpc = "fetch"
    /\ log' = Append(log, Req("fetch", FetchTarget(rpaths), 0, {}, <<>>,
                              {}, 0, 0))
    /\ rpc' = "fetchWait"
    /\ UNCHANGED <<rres, rpaths, destCreated, dest, destClosed, destErr>>
    /\ UNCHANGED <<aside, inputs, envvars, wvars>>

\* The device's answer to the fetch and the rest of Read: the status
\* check, the destination (stdout or a created file), the copy, the close.
\* A device answers 200 only for a file it holds, with the stored bytes.
FetchResp ==
    /\ rpc = "fetchWait"
    /\ \E resp \in Responses, toStdout, createOK, copyOK, closeOK \in BOOLEAN :
        LET err == DoChecked(resp, StatusOK)
            p == log[Len(log)].path
        IN
        /\ resp.transport \/ resp.decodable
        /\ Accepted(resp) => p \in DOMAIN store
        /\ log' = Acked(log, resp, <<>>)
        /\ rpc' = "done"
        /\ IF err # "nil"
           THEN /\ rres' = err
                /\ toStdout /\ createOK /\ copyOK /\ closeOK
                /\ UNCHANGED <<destCreated, dest, destClosed, destErr>>
           ELSE IF ~toStdout /\ ~createOK
           THEN /\ rres' = "create"
                /\ destErr' = "create"
                /\ copyOK /\ closeOK
                /\ UNCHANGED <<destCreated, dest, destClosed>>
           ELSE /\ toStdout => createOK
                /\ destCreated' = ~toStdout
                /\ \E k \in Copied(Served(p), copyOK) :
                       dest' = SubSeq(Served(p), 1, k)
                /\ destClosed' = TRUE
                /\ copyOK \/ closeOK
                /\ destErr' = IF ~copyOK THEN "copy"
                              ELSE IF ~closeOK THEN "close" ELSE "none"
                /\ rres' = CopyResult(copyOK, closeOK)
    /\ UNCHANGED rpaths
    /\ UNCHANGED <<aside, inputs, envvars, wvars>>

ReadNext ==
    \/ GetPathsSend
    \/ GetPathsResp
    \/ FetchSend
    \/ FetchResp

Next == WriteNext \/ ReadNext

Spec == Init /\ [][Next]_vars

\* ---------------------------------------------------- reading the log
\* Whether a logged request was answered with the success it expects.
Succeeded(r) ==
    IF r.kind \in {"create-open", "get-paths"} THEN Granted(r.ack)
    ELSE Accepted(r.ack)

\* Whether a logged request was answered, and not with success.
FailedReq(r) == r.ack # NoResp /\ ~Succeeded(r)

\* The positions of the log holding a request of one kind.
Positions(kind) == {i \in 1..Len(log) : log[i].kind = kind}

\* The body bytes carried by the chunk requests before position i.
RECURSIVE BytesBefore(_)
BytesBefore(i) ==
    IF i <= 1 THEN 0
    ELSE BytesBefore(i - 1)
         + (IF log[i - 1].kind = "chunk" THEN Len(log[i - 1].body) ELSE 0)

\* The error kind an answer that is not a success stands for.
ErrorKind(resp) ==
    IF resp.transport THEN "transport"
    ELSE IF resp.code >= 500 THEN "server"
    ELSE IF resp.code >= 400 THEN "client"
    ELSE IF resp.code # StatusOK THEN "unexpected"
    ELSE "decode"

\* ----------------------------------------------------------------- claims

\* C1: the requests of Client.Write are strictly ordered. create-open is the
\* first request; a chunk goes to the path create-open returned and only
\* right after a create-open or a chunk that was answered with success;
\* create-close is sent at most once, right after a chunk, when every chunk
\* was answered with success, with the fid and devid create-open returned,
\* and no chunk follows it.
WriteRequestsOrdered ==
    \A i \in 1..Len(log) :
        /\ log[i].kind = "create-open" => i = 1
        /\ log[i].kind = "chunk" =>
            /\ i > 1
            /\ log[1].kind = "create-open"
            /\ Granted(log[1].ack)
            /\ log[i].path = log[1].ret[1]
            /\ log[i - 1].kind \in {"create-open", "chunk"}
            /\ Succeeded(log[i - 1])
        /\ log[i].kind = "create-close" =>
            /\ i > 1
            /\ log[1].kind = "create-open"
            /\ Granted(log[1].ack)
            /\ log[i - 1].kind = "chunk"
            /\ \A j \in 1..(i - 1) : log[j].kind = "chunk" => Accepted(log[j].ack)
            /\ log[i].fid = log[1].ret[1].fid
            /\ log[i].devid = log[1].ret[1].dev
            /\ Positions("create-close") = {i}
            /\ \A j \in (i + 1)..Len(log) : log[j].kind # "chunk"

\* C1 witness: a session of several chunks reached its create-close.
WriteRequestsOrderedWitness ==
    /\ Cardinality(Positions("chunk")) >= 2
    /\ Positions("create-close") # {}

\* C4: the offset header of every chunk request is the number of body bytes
\* of the chunk requests before it, and the length header carries the
\* declared size when it is known and is absent when it is not.
ChunkHeaders ==
    \A i \in Positions("chunk") :
        /\ log[i].offset = BytesBefore(i)
        /\ log[i].length = (IF size = UnknownSize THEN {} ELSE {size})

\* C4 witness: a third chunk request, at an offset past the start.
ChunkHeadersWitness ==
    \E i \in Positions("chunk") :
        /\ log[i].offset >= 2
        /\ Cardinality(Positions("chunk")) >= 3

\* C7: when create-open fails (no response, 4xx, 5xx, another unexpected
\* status, a body that does not decode), Write has returned that error, no
\* chunk request and no create-close was sent, and no device stores a byte.
OpenFailureSendsNothing ==
    (Len(log) >= 1 /\ log[1].kind = "create-open" /\ FailedReq(log[1])) =>
        /\ wpc = "done"
        /\ wres = ErrorKind(log[1].ack)
        /\ Positions("chunk") = {}
        /\ Positions("create-close") = {}
        /\ store = <<>>

\* C7 witness: create-open was answered 200 with a body that does not
\* decode, and the client went on to its next command.
OpenFailureSendsNothingWitness ==
    /\ Len(log) >= 2
    /\ log[1].kind = "create-open"
    /\ FailedReq(log[1])
    /\ log[1].ack.code = StatusOK

\* C8: a chunk request that fails is the last request of the session. It is
\* not sent again, no chunk and no create-close follows it, the key is not
\* mapped, and Write has returned the error.
ChunkFailureEndsSession ==
    \A i \in Positions("chunk") :
        FailedReq(log[i]) =>
            /\ wpc = "done"
            /\ wres = ErrorKind(log[i].ack)
            /\ \A j \in (i + 1)..Len(log) :
                   log[j].kind \notin {"chunk", "create-close"}
            /\ mapping = {}

\* C8 witness: the second chunk of a session failed and the client went on
\* to its next command.
ChunkFailureEndsSessionWitness ==
    \E i \in Positions("chunk") :
        /\ FailedReq(log[i])
        /\ log[i].offset > 0
        /\ i < Len(log)

\* C2: with a source of unknown size, a chunk request that carries fewer
\* bytes than the chunk size is the last chunk request of the session, and
\* once it is acknowledged the session goes on to create-close.
StreamEndsAtShortChunk ==
    size = UnknownSize =>
        \A i \in Positions("chunk") :
            Len(log[i].body) < chunkSize =>
                /\ \A j \in (i + 1)..Len(log) : log[j].kind # "chunk"
                /\ Accepted(log[i].ack) => wpc \in {"close", "closeWait", "done"}

\* C3: with a declared size N, no chunk request has an empty body, and a
\* chunk request is sent only while fewer than N bytes have been sent.
KnownSizeNoEmptyChunk ==
    size # UnknownSize =>
        \A i \in Positions("chunk") :
            /\ log[i].body # <<>>
            /\ BytesBefore(i) < size

\* C5: round trip. Read returns nil only with the destination holding the
\* content written; and when the device has acknowledged the chunk that
\* carried the end of content C (N declared as Len(C), or N unknown and the
\* chunk short), the device holds C and Write goes on to commit it.
RoundTrip ==
    size \in {UnknownSize, Len(content)} =>
        /\ rres = "nil" => dest = content
        /\ \A i \in Positions("chunk") :
            ( /\ Accepted(log[i].ack)
              /\ BytesBefore(i) + Len(log[i].body) = Len(content)
              /\ size = UnknownSize => Len(log[i].body) < chunkSize )
            => /\ Served(log[i].path) = content
               /\ wpc \in {"close", "closeWait", "done"}

\* C6 as claimed: the size of create-close is the number of body bytes of
\* the chunk requests, and the declared size when one was declared.
CloseSizeIsDeclared ==
    \A i \in Positions("create-close") :
        /\ log[i].size = {BytesBefore(i)}
        /\ size # UnknownSize => log[i].size = {size}

\* C6 as amended: the size of create-close is the number of body bytes of
\* the acknowledged chunk requests; with a declared size it is at least the
\* declared size, and equal to it when the source holds exactly that many
\* bytes.
CloseSizeIsSent ==
    \A i \in Positions("create-close") :
        /\ \A j \in 1..(i - 1) : log[j].kind = "chunk" => Accepted(log[j].ack)
        /\ log[i].size = {BytesBefore(i)}
        /\ size # UnknownSize =>
            /\ BytesBefore(i) >= size
            /\ Len(content) = size => BytesBefore(i) = size

\* C6 witness: create-close after several chunks of a source of the
\* declared size.
CloseSizeIsSentWitness ==
    \E i \in Positions("create-close") :
        /\ Len(content) = size
        /\ BytesBefore(i) >= 2
        /\ Cardinality(Positions("chunk")) >= 2

\* C9: Read sends get-paths once and then at most one fetch, to the first
\* path of the list get-paths returned. When get-paths fails or returns an
\* empty list no fetch is sent and Read has returned an error. When Read
\* has returned after a list that is not empty, it sent exactly one fetch,
\* whatever the answer to it.
ReadFetchesFirstPathOnce ==
    /\ Cardinality(Positions("get-paths")) <= 1
    /\ Cardinality(Positions("fetch")) <= 1
    /\ \A i \in Positions("fetch") :
        /\ i > 1
        /\ log[i - 1].kind = "get-paths"
        /\ Granted(log[i - 1].ack)
        /\ Len(log[i - 1].ret) >= 1
        /\ log[i].path = log[i - 1].ret[1]
    /\ \A i \in Positions("get-paths") :
        /\ (FailedReq(log[i]) \/ (Granted(log[i].ack) /\ log[i].ret = <<>>)) =>
            /\ Positions("fetch") = {}
            /\ rpc = "done"
            /\ rres \notin {"none", "nil"}
        /\ (Granted(log[i].ack) /\ log[i].ret # <<>> /\ rpc = "done") =>
            Cardinality(Positions("fetch")) = 1

\* C9 witness: the list had two paths, the fetch of the first one failed,
\* and Read returned.
ReadFetchesFirstPathOnceWitness ==
    \E i \in Positions("fetch") :
        /\ Len(log[i - 1].ret) = 2
        /\ FailedReq(log[i])
        /\ rpc = "done"

\* C10: when the fetch is not answered with 200, Read has returned an error
\* and the destination was not created, written or closed. Read returns
\* nil only after a fetch answered 200 whose whole body is in the
\* destination, the destination closed with no error.
ReadSuccessMeansWholeBody ==
    /\ \A i \in Positions("fetch") :
        FailedReq(log[i]) =>
            /\ rres = ErrorKind(log[i].ack)
            /\ ~destCreated
            /\ dest = <<>>
            /\ ~destClosed
    /\ rres = "nil" =>
        \E i \in Positions("fetch") :
            /\ Accepted(log[i].ack)
            /\ dest = Served(log[i].path)
            /\ destClosed
            /\ destErr = "none"

\* C10 witness: Read returned nil with a created destination of several
\* bytes.
ReadSuccessMeansWholeBodyWitness ==
    /\ rres = "nil"
    /\ destCreated
    /\ Len(dest) >= 2

\* ------------------------------------------------------ the response check
\* The status codes a call may expect.
ExpectedCodes == {200, 201, 404, 500}

\* The responses checked: none at all, or any status code with a body
\* that decodes or does not.
CheckedResponses ==
    {[transport |-> TRUE, code |-> 0, decodable |-> FALSE]}
    \cup [transport : {FALSE}, code : MinStatus..MaxStatus, decodable : BOOLEAN]

CheckInit ==
    /\ XferIdle
    /\ ckResp \in CheckedResponses
    /\ ckExpected \in ExpectedCodes
    /\ ckWants \in BOOLEAN
    /\ ckErr = "pending"
    /\ ckReq = "pending"
    /\ ckDo = "pending"
    /\ exResult = NotCalled
    /\ ConcIdle
    /\ PrIdle
    /\ StIdle

\* One response is put through checkResponseError, through Client.request
\* and through the Do-and-check of a chunk or a fetch.
CheckResponse ==
    /\ ckErr = "pending"
    /\ ckErr' = IF ckResp.transport THEN "none"
                ELSE checkResponseError(ckResp.code, ckExpected)
    /\ ckReq' = request(ckResp, ckExpected, ckWants)
    /\ ckDo' = DoChecked(ckResp, ckExpected)
    /\ UNCHANGED <<ckResp, ckExpected, ckWants, exResult>>
    /\ UNCHANGED <<xfervars, concvars, prvars, stvars>>

\* Client.Exists(key) is called and the tracker answers with the response.
ExistsCall ==
    /\ ~exResult.called
    /\ exResult' = Exists(getPath(ckResp))
    /\ UNCHANGED <<ckResp, ckExpected, ckWants, ckErr, ckReq, ckDo>>
    /\ UNCHANGED <<xfervars, concvars, prvars, stvars>>

CheckNext == CheckResponse \/ ExistsCall

CheckSpec == CheckInit /\ [][CheckNext]_vars

\* C11: for a response of status s checked against the expected e, s >= 500
\* gives a server error, 400 <= s < 500 a client error, any other s # e an
\* unexpected-status error, and no error exactly when s = e and s < 400;
\* Client.request and the check of a chunk or fetch response return that
\* error whenever there is one, and request decodes the body only when
\* there is none.
ResponseClassified ==
    (ckErr # "pending" /\ ~ckResp.transport) =>
        /\ ckResp.code >= 500 => ckErr = "server"
        /\ (ckResp.code >= 400 /\ ckResp.code < 500) => ckErr = "client"
        /\ (ckResp.code < 400 /\ ckResp.code # ckExpected) => ckErr = "unexpected"
        /\ ckErr = "nil" <=> (ckResp.code = ckExpected /\ ckResp.code < 400)
        /\ ckDo = ckErr
        /\ ckErr # "nil" => ckReq = ckErr
        /\ ckErr = "nil" =>
            ckReq = (IF ckWants /\ ~ckResp.decodable THEN "decode" ELSE "nil")

\* C11 witness: a 404 was checked by a call that expects 404 and is a
\* client error all the same.
ResponseClassifiedWitness ==
    /\ ckErr = "client"
    /\ ckResp.code = ckExpected

\* C12: Client.Exists returns false and no error when the tracker answers
\* NotFound (404); it returns true only when the tracker answered 200 with
\* a body that decodes; every other answer (none at all, 5xx, another 4xx,
\* another status, a body that does not decode) comes back as an error,
\* with false.
ExistsTellsAbsentFromFailed ==
    exResult.called =>
        /\ (~ckResp.transport /\ ckResp.code = StatusNotFound) =>
            (~exResult.exists /\ exResult.err = "nil")
        /\ exResult.exists =>
            (~ckResp.transport /\ ckResp.code = StatusOK /\ ckResp.decodable
             /\ exResult.err = "nil")
        /\ (ckResp.transport
            \/ (ckResp.code # StatusOK /\ ckResp.code # StatusNotFound)
            \/ (ckResp.code = StatusOK /\ ~ckResp.decodable)) =>
            (~exResult.exists /\ exResult.err # "nil")

\* C12 witness: the tracker answered 404 and Exists returned false, nil.
ExistsTellsAbsentFromFailedWitness ==
    /\ exResult.called
    /\ ~ckResp.transport
    /\ ckResp.code = StatusNotFound
    /\ ~exResult.exists
    /\ exResult.err = "nil"

\* ------------------------------------------------ two concurrent writers
\* Two Client.Write sessions for Key run side by side, then one Client.Read.
\* Each request of a session is one step: the session builds it from its
\* own state only, so the order of the steps is the order in which the
\* tracker and the devices act on the requests.

\* The file identifiers the tracker has handed out.
Allocated == {sess[w].fid : w \in Writers} \ {0}

\* The tracker's choice for create-open: a device and a fresh identifier,
\* the next one of its counter.
FreshPaths ==
    {p \in Paths : /\ p.fid \notin Allocated
                   /\ \A f \in Fids \ Allocated : p.fid <= f}

\* The sources of a writer: files whose size is their length.
ConcSources == {Session(c, Len(c)) : c \in SeqsUpTo(ConcLen)}

\* The answers a writer's request may get: none, the expected status, the
\* expected status with a body that does not decode.
ConcResponses == {r \in Responses : r.transport \/ r.code = StatusOK}

\* Both writers have opened their source; nothing was sent yet.
ConcInit ==
    /\ content = <<>>
    /\ size = 0
    /\ chunkSize \in 1..MaxChunk
    /\ wpc = "start"
    /\ wres = "none"
    /\ wpath = NoPath
    /\ wfid = 0
    /\ wdevid = 0
    /\ count = 0
    /\ log = <<>>
    /\ pending = {}
    /\ mapping = {}
    /\ store = <<>>
    /\ rpc = "start"
    /\ rres = "none"
    /\ rpaths = <<>>
    /\ destCreated = FALSE
    /\ dest = <<>>
    /\ destClosed = FALSE
    /\ destErr = "none"
    /\ CkIdle
    /\ PrIdle
    /\ StIdle
    /\ sess \in [Writers -> ConcSources]
    /\ closed = <<>>

\* Writer w's createOpen: the request and the tracker's answer.
ConcCreateOpen(w) ==
    /\ sess[w].pc = "start"
    /\ \E resp \in ConcResponses :
        LET err == request(resp, StatusOK, TRUE) IN
        IF Granted(resp)
        THEN \E p \in FreshPaths :
                /\ pending' = pending \cup {p}
                /\ sess' = [sess EXCEPT ![w].pc = AfterOpen(err),
                                        ![w].path = p,
                                        ![w].fid = p.fid,
                                        ![w].devid = p.dev]
        ELSE /\ sess' = [sess EXCEPT
                            ![w].pc = AfterOpen(err),
                            ![w].res = IF AfterOpen(err) = "done"
                                       THEN err ELSE "none"]
             /\ UNCHANGED pending
    /\ UNCHANGED <<mapping, store, closed, log>>
    /\ UNCHANGED <<ckvars, prvars, stvars, inputs, wvars, rvars>>

\* One turn of the loop of writer w's Client.write: the PATCH request, the
\* device's answer and the return test.
ConcChunk(w) ==
    /\ sess[w].pc = "chunk"
    /\ sess[w].sent < MaxReq
    /\ \E resp \in ConcResponses :
        LET s == sess[w]
            body == ChunkBody(s.content, s.count, chunkSize)
            offset == OffsetHeader(s.count)
            cnt == CountAfter(s.count, body)
            err == DoChecked(resp, StatusOK)
        IN
        /\ resp.transport \/ resp.decodable
        /\ store' = IF Accepted(resp)
                    THEN DeviceStore(store, s.path, offset, body)
                    ELSE store
        /\ sess' = [sess EXCEPT
                       ![w].count = cnt,
                       ![w].sent = s.sent + 1,
                       ![w].pc = AfterChunk(err, s.size, cnt),
                       ![w].res = IF AfterChunk(err, s.size, cnt) = "done"
                                  THEN err ELSE "none"]
    /\ UNCHANGED <<pending, mapping, closed, log>>
    /\ UNCHANGED <<ckvars, prvars, stvars, inputs, wvars, rvars>>

\* Writer w's createClose: the request and the tracker's answer; on success
\* the tracker swaps the mapping of Key to w's file in one step.
ConcCreateClose(w) ==
    /\ sess[w].pc = "close"
    /\ \E resp \in ConcResponses :
        LET s == sess[w]
            err == request(resp, StatusOK, FALSE)
            p == [dev |-> s.devid, fid |-> s.fid]
        IN
        /\ resp.transport \/ resp.decodable
        /\ sess' = [sess EXCEPT ![w].pc = "done", ![w].res = err]
        /\ IF Accepted(resp)
           THEN /\ p \in pending
                /\ pending' = pending \ {p}
                /\ mapping' = {[fid |-> s.fid, devid |-> s.devid,
                                size |-> {CloseSize(s.size, s.count)}]}
                /\ closed' = Append(closed, w)
           ELSE UNCHANGED <<pending, mapping, closed>>
    /\ UNCHANGED <<store, log>>
    /\ UNCHANGED <<ckvars, prvars, stvars, inputs, wvars, rvars>>

\* getPaths of the Read that runs once both writers have returned nil.
ConcGetPathsSend ==
    /\ \A w \in Writers : sess[w].pc = "done" /\ sess[w].res = "nil"
    /\ rpc = "start"
    /\ log' = Append(log, Req("get-paths", NoPath, 0, {}, <<>>, {}, 0, 0))
    /\ rpc' = "pathsWait"
    /\ UNCHANGED <<rres, rpaths, destCreated, dest, destClosed, destErr>>
    /\ UNCHANGED <<aside, inputs, envvars, wvars>>

ConcNext ==
    \/ \E w \in Writers : ConcCreateOpen(w)
    \/ \E w \in Writers : ConcChunk(w)
    \/ \E w \in Writers : ConcCreateClose(w)
    \/ ConcGetPathsSend
    \/ GetPathsResp
    \/ FetchSend
    \/ FetchResp

ConcSpec == ConcInit /\ [][ConcNext]_vars

\* C13: once both writers have returned without an error and the Read
\* that follows has returned without an error, the destination holds
\* exactly the content of the writer whose create-close took effect last;
\* and at every moment each writer's file on the device holds bytes of
\* that writer's content only, at their own positions.
LastWriterWins ==
    /\ \A w \in Writers :
          sess[w].path \in DOMAIN store =>
              /\ Len(store[sess[w].path]) <= Len(sess[w].content)
              /\ store[sess[w].path] =
                     SubSeq(sess[w].content, 1, Len(store[sess[w].path]))
    /\ (/\ \A w \in Writers : sess[w].res = "nil"
        /\ rpc = "done"
        /\ rres = "nil") =>
           /\ Len(closed) = 2
           /\ dest = sess[closed[2]].content

\* C13 witness: both writers sent two chunks of different bytes, writer 2
\* closed first, and the Read returned the content of writer 1.
LastWriterWinsWitness ==
    /\ \A w \in Writers : sess[w].res = "nil" /\ sess[w].sent = 2
    /\ sess[1].content # sess[2].content
    /\ Len(sess[1].content) = 2
    /\ closed = <<2, 1>>
    /\ rpc = "done"
    /\ rres = "nil"
    /\ dest = sess[1].content

\* ---------------------------------------------------- efesStatus.Print
\* The byte counts a device may report.
ByteCounts == {0, 333, 1000, 3000, MaxInt64}

\* A *int64 field: nil or a value.
OptBytes == {{}} \cup {{v} : v \in ByteCounts}

\* The rows of a table, by their BytesUsed and BytesTotal.
PrintRows == [used : OptBytes, total : OptBytes]

PrintInit ==
    /\ XferIdle
    /\ CkIdle
    /\ ConcIdle
    /\ StIdle
    /\ prDevices \in UNION {[1..k -> PrintRows] : k \in 0..MaxRows}
    /\ prOut = NotPrinted

\* efesStatus.Print is called on the rows.
PrintCall ==
    /\ prOut.state = "none"
    /\ prOut' = PrintOut(prDevices)
    /\ UNCHANGED prDevices
    /\ UNCHANGED <<xfervars, ckvars, concvars, stvars>>

PrintNext == PrintCall

PrintSpec == PrintInit /\ [][PrintNext]_vars

\* The sum of the used bytes the rows report, in unbounded integers.
RECURSIVE UsedReported(_)
UsedReported(devs) ==
    IF devs = <<>> THEN 0
    ELSE UsedReported(SubSeq(devs, 1, Len(devs) - 1))
         + (IF devs[Len(devs)].used # {} THEN Val(devs[Len(devs)].used) ELSE 0)

\* The sum of the total bytes the rows report, in unbounded integers.
RECURSIVE TotalReported(_)
TotalReported(devs) ==
    IF devs = <<>> THEN 0
    ELSE TotalReported(SubSeq(devs, 1, Len(devs) - 1))
         + (IF devs[Len(devs)].total # {} THEN Val(devs[Len(devs)].total) ELSE 0)

\* C14: for every row with used and total present and 0 <= used <= total,
\* total = 0 and the largest byte counts included, the Use cell is the
\* decimal text of a number between 0 and 100, the truncation of
\* (used * 100) / total when total is not 0; for a row with used or total
\* absent it is the empty text.
UseIsPercentage ==
    prOut.state # "none" =>
        \A i \in 1..Len(prDevices) :
            LET d == prDevices[i]
                u == prOut.cells[i]
            IN
            /\ (d.used = {} \/ d.total = {}) => (~u.panic /\ u.text = <<>>)
            /\ (/\ d.used # {}
                /\ d.total # {}
                /\ 0 <= Val(d.used)
                /\ Val(d.used) <= Val(d.total)) =>
                   /\ ~u.panic
                   /\ \E n \in 0..100 :
                        /\ u.text = FormatInt(n)
                        /\ Val(d.total) # 0 =>
                               n = (Val(d.used) * 100) \div Val(d.total)

FooterConsistent ==
    (/\ prOut.state # "none"
     /\ \A i \in 1..Len(prDevices) :
           (prDevices[i].used # {} /\ prDevices[i].total # {}) =>
               (0 <= Val(prDevices[i].used)
                /\ Val(prDevices[i].used) <= Val(prDevices[i].total))) =>
        /\ \E n \in 0..100 : prOut.use = FormatInt(n)
        /\ prOut.free >= 0

\* ---------------------------------------------------------- Client.Status
\* The statuses of a device and the capacities it may report.
DeviceStatuses == {"alive", "dead", "readonly"}
Capacities ==
    {[used |-> {}, total |-> {}, free |-> {}],
     [used |-> {333}, total |-> {1000}, free |-> {667}]}

\* The device records of the tracker; a device may name a host the tracker
\* has no record of.
DeviceRecords ==
    {[devid |-> i, hostid |-> h, status |-> s,
      used |-> c.used, total |-> c.total, free |-> c.free] :
        i \in 1..MaxRows, h \in {1, 2}, s \in DeviceStatuses, c \in Capacities}

\* The answers to get-devices: lists of devices of different ids.
DeviceLists ==
    {l \in UNION {[1..k -> DeviceRecords] : k \in 0..MaxRows} :
        \A i, j \in 1..Len(l) : i # j => l[i].devid # l[j].devid}

\* The answers to get-hosts.
HostLists ==
    LET h1 == [hostid |-> 1, hostname |-> "h1", status |-> "alive"]
        h2 == [hostid |-> 2, hostname |-> "h2", status |-> "down"]
    IN  {<<>>, <<h1>>, <<h2, h1>>}

\* The sort keys a caller may pass.
SortKeys == KnownSortKeys \cup {"io"}

StatusInit ==
    /\ XferIdle
    /\ CkIdle
    /\ ConcIdle
    /\ PrIdle
    /\ stDevices \in DeviceLists
    /\ stHosts \in HostLists
    /\ stRet = NoStatus

\* Client.Status(sortBy) is called: get-devices, get-hosts, the rows, the
\* sort.
StatusCall ==
    /\ ~stRet.called
    /\ \E devResp \in Responses :
        LET errDevices == trackerRequest(devResp, TRUE).kind IN
        IF errDevices # "nil"
        THEN stRet' = [called |-> TRUE, sortBy |-> "",
                       err |-> errDevices, snapshot |-> FALSE,
                       rows |-> <<>>, devAnswer |-> devResp,
                       hostAnswer |-> NoResp]
        ELSE \E hostResp \in Responses :
            LET errHosts == trackerRequest(hostResp, TRUE).kind IN
            IF errHosts # "nil"
            THEN stRet' = [called |-> TRUE, sortBy |-> "",
                           err |-> errHosts, snapshot |-> FALSE,
                           rows |-> <<>>, devAnswer |-> devResp,
                           hostAnswer |-> hostResp]
            ELSE \E sortBy \in SortKeys :
                 \E rows \in SortRows(Rows(stDevices, stHosts), sortBy) :
                    stRet' = [called |-> TRUE, sortBy |-> sortBy,
                              err |-> "nil", snapshot |-> TRUE,
                              rows |-> rows, devAnswer |-> devResp,
                              hostAnswer |-> hostResp]
    /\ UNCHANGED <<stDevices, stHosts>>
    /\ UNCHANGED <<xfervars, ckvars, concvars, prvars>>

StatusNext == StatusCall

StatusSpec == StatusInit /\ [][StatusNext]_vars

\* C16: every device get-devices returned, whatever its status, has a row
\* in the snapshot Status returns.
DeadDevicesListed ==
    (stRet.called /\ stRet.snapshot) =>
        \A i \in 1..Len(stDevices) :
            \E j \in 1..Len(stRet.rows) : stRet.rows[j].device = stDevices[i]

\* The rows are an arrangement of the rows of r, each exactly once.
Permutes(rows, r) ==
    /\ Len(rows) = Len(r)
    /\ \E p \in [1..Len(r) -> 1..Len(r)] :
        /\ \A i, j \in 1..Len(r) : i # j => p[i] # p[j]
        /\ \A i \in 1..Len(r) : rows[i] = r[p[i]]

\* C17: with a sort key Status does not know it returns no error and the
\* rows in the order get-devices listed their devices; with a key it
\* knows the rows are the same rows, each once, in some order.
SortKeepsRows ==
    (stRet.called /\ Granted(stRet.devAnswer) /\ Granted(stRet.hostAnswer)) =>
        /\ stRet.sortBy \notin KnownSortKeys =>
            /\ stRet.err = "nil"
            /\ stRet.snapshot
            /\ stRet.rows = Rows(stDevices, stHosts)
            /\ \A i, j \in 1..Len(stRet.rows) :
                i < j =>
                    \E a, b \in 1..Len(stDevices) :
                        /\ a < b
                        /\ stDevices[a] = stRet.rows[i].device
                        /\ stDevices[b] = stRet.rows[j].device
        /\ stRet.sortBy \in KnownSortKeys =>
            /\ stRet.err = "nil"
            /\ Permutes(stRet.rows, Rows(stDevices, stHosts))

\* C17 witness: an unknown key left two rows in listing order, devices 2
\* then 1, which every known key but one would order otherwise.
SortKeepsRowsWitness ==
    /\ stRet.called
    /\ stRet.snapshot
    /\ stRet.sortBy = "io"
    /\ Len(stRet.rows) = 2
    /\ stRet.rows[1].device.devid = 2
    /\ stRet.rows[1].hostname = "h2"
    /\ stRet.rows[2].hostname = "h1"

\* C19: every row's device fields are those of one device of get-devices,
\* its host name and host status those of the get-hosts record with the
\* device's host id, or both empty without such a record; and Status
\* returns an error and no snapshot when get-devices or get-hosts failed.
RowsAreJoin ==
    stRet.called =>
        /\ \A j \in 1..Len(stRet.rows) :
            LET row == stRet.rows[j]
                hs == {i \in 1..Len(stHosts) :
                          stHosts[i].hostid = row.device.hostid}
            IN
            /\ \E i \in 1..Len(stDevices) : row.device = stDevices[i]
            /\ hs = {} => (row.hostname = "" /\ row.hostStatus = "")
            /\ \A i \in hs : /\ row.hostname = stHosts[i].hostname
                             /\ row.hostStatus = stHosts[i].status
        /\ (~Granted(stRet.devAnswer) \/ ~Granted(stRet.hostAnswer)) =>
            (~stRet.snapshot /\ stRet.err # "nil" /\ stRet.rows = <<>>)
        /\ (Granted(stRet.devAnswer) /\ Granted(stRet.hostAnswer)) =>
            (stRet.snapshot /\ stRet.err = "nil")

\* C19 witness: a snapshot with a row joined to its host and a row of a
\* device whose host has no record.
RowsAreJoinWitness ==
    /\ stRet.called
    /\ stRet.snapshot
    /\ Len(stRet.rows) = 2
    /\ stRet.rows[1].hostname = "h1"
    /\ stRet.rows[1].hostStatus = "alive"
    /\ stRet.rows[1].device.hostid = 1
    /\ stRet.rows[2].hostname = ""
    /\ stRet.rows[2].device.hostid = 2

====
